---- MODULE Spec2Model ----
(***************************************************************************)
(* A model of the dnsserver package: the DNS wire codec (message.go) and   *)
(* the server's read / dispatch / forward loop (server.go).                *)
(*                                                                         *)
(* Bytes are the integers 0..255 and a byte string is a sequence of them.  *)
(* A Go slice is the record [mem, off, len, cap]: mem holds the bytes of   *)
(* the backing array that were ever written (the array is zero beyond      *)
(* them), off is where the slice starts in it, len and cap are Go's.       *)
(***************************************************************************)
EXTENDS Integers, Sequences, FiniteSets, TLC

\* ------------------------------------------------------------------ bounds

\* The number of datagrams a behaviour delivers to the listening socket.
MaxReads == 2

\* Questions in a message that is encoded and decoded again
MaxQuestions == 2

\* ------------------------------------------------------- program constants

\* buf := make([]byte, 1024)
BufSize == 1024

HeaderSize == 12

RCODE_SERVER_FAILURE == 2

\* TTL of a synthesized answer
DefaultTTL == 60

\* ------------------------------------------------------------ byte helpers

Min(a, b) == IF a <= b THEN a ELSE b

Take(s, k) == SubSeq(s, 1, Min(k, Len(s)))

Drop(s, k) == SubSeq(s, Min(k, Len(s)) + 1, Len(s))

\* binary.BigEndian on a uint16 / uint32
BE16(v) == << (v \div 256) % 256, v % 256 >>

BE32(v) == << (v \div 16777216) % 256, (v \div 65536) % 256, (v \div 256) % 256, v % 256 >>

U16(hi, lo) == hi * 256 + lo

\* Byte i (from 0) of a backing array whose written bytes are mem.
ByteAt(mem, i) == IF i < Len(mem) THEN mem[i + 1] ELSE 0

\* data[i] of a slice, for an i the caller has checked.
SAt(s, i) == ByteAt(s.mem, s.off + i)

\* data[from : from+count] as a byte string, for bounds the caller has checked
\* against cap: bytes between len and cap are read from the backing array.
SBytes(s, from, count) == [k \in 1..count |-> SAt(s, from + k - 1)]

\* A slice whose backing array has room for no more than its bytes.
SliceOf(bytes) == [mem |-> bytes, off |-> 0, len |-> Len(bytes), cap |-> Len(bytes)]

\* data[k:], for a k the caller has checked against len.
SliceFrom(s, k) == [mem |-> s.mem, off |-> s.off + k, len |-> s.len - k, cap |-> s.cap - k]

\* copy(dst, src) into a backing array of BufSize bytes whose written bytes are dst.
Copy(dst, src) ==
    LET in == Take(src, BufSize)
    IN  in \o Drop(dst, Len(in))

\* ------------------------------------------------------------------ Header

NewHeader(id, flags, questionCount, answerCount, authorityCount, additionalCount) ==
    [ID |-> id, Flags |-> flags, QuestionsCount |-> questionCount,
     AnswerCount |-> answerCount, AuthorityCount |-> authorityCount,
     AdditionalCount |-> additionalCount]

QrMask == 32768

\* SetQuery with h.Flags ^= qrMask in the response branch.
SetQueryToggles(h, isQuery) ==
    LET set == (h.Flags \div QrMask) % 2 = 1
    IN  IF isQuery
        THEN [h EXCEPT !.Flags = IF set THEN @ - QrMask ELSE @]
        ELSE [h EXCEPT !.Flags = IF set THEN @ - QrMask ELSE @ + QrMask]

\* h.Flags &^= qrMask  /  h.Flags |= qrMask
SetQuery(h, isQuery) ==
    LET set == (h.Flags \div QrMask) % 2 = 1
    IN  IF isQuery
        THEN [h EXCEPT !.Flags = IF set THEN @ - QrMask ELSE @]
        ELSE [h EXCEPT !.Flags = IF set THEN @ ELSE @ + QrMask]

\* SetResponseCode without h.Flags &^= 0x000F, the code added to the flags.
SetResponseCodeKeepsOld(h, code) ==
    [h EXCEPT !.Flags = (@ + (code % 16)) % 65536]

\* code &= 0x0F; h.Flags &^= 0x000F; h.Flags |= uint16(code)
SetResponseCode(h, code) ==
    [h EXCEPT !.Flags = (@ - (@ % 16)) + (code % 16)]

\* The header written with binary.LittleEndian.
HeaderMarshalBinaryLittleEndian(h) ==
    << h.ID % 256, h.ID \div 256, h.Flags % 256, h.Flags \div 256,
       h.QuestionsCount % 256, h.QuestionsCount \div 256,
       h.AnswerCount % 256, h.AnswerCount \div 256,
       h.AuthorityCount % 256, h.AuthorityCount \div 256,
       h.AdditionalCount % 256, h.AdditionalCount \div 256 >>

\* binary.Write(buf, binary.BigEndian, h)
HeaderMarshalBinary(h) ==
    BE16(h.ID) \o BE16(h.Flags) \o BE16(h.QuestionsCount) \o BE16(h.AnswerCount)
        \o BE16(h.AuthorityCount) \o BE16(h.AdditionalCount)

\* binary.Read(bytes.NewReader(data), binary.BigEndian, h): the reader holds
\* the len(data) bytes of the slice, and fewer than 12 of them is an error.
NewHeaderFromBytes(s) ==
    IF s.len < HeaderSize
    THEN [kind |-> "err"]
    ELSE [kind |-> "ok",
          h |-> NewHeader(U16(SAt(s, 0), SAt(s, 1)), U16(SAt(s, 2), SAt(s, 3)),
                          U16(SAt(s, 4), SAt(s, 5)), U16(SAt(s, 6), SAt(s, 7)),
                          U16(SAt(s, 8), SAt(s, 9)), U16(SAt(s, 10), SAt(s, 11)))]

\* ---------------------------------------------------------------- Question

Dot == 46

\* strings.Join(labels, ".")
RECURSIVE Join(_)
Join(labels) ==
    IF Len(labels) = 0 THEN << >>
    ELSE IF Len(labels) = 1 THEN labels[1]
    ELSE labels[1] \o << Dot >> \o Join(Tail(labels))

\* strings.Split(name, "."): the parts between the dots, one more than the dots.
RECURSIVE Split(_)
Split(name) ==
    IF \A i \in 1..Len(name) : name[i] # Dot
    THEN << name >>
    ELSE LET dot == CHOOSE i \in 1..Len(name) :
                        name[i] = Dot /\ \A j \in 1..(i - 1) : name[j] # Dot
         IN  << SubSeq(name, 1, dot - 1) >> \o Split(SubSeq(name, dot + 1, Len(name)))

nameToLabels(name) == Split(name)

\* buf.WriteByte(byte(len(label))); buf.WriteString(label), for each label
RECURSIVE WriteLabels(_)
WriteLabels(labels) ==
    IF Len(labels) = 0 THEN << >>
    ELSE << Len(labels[1]) % 256 >> \o labels[1] \o WriteLabels(Tail(labels))

QuestionMarshalBinary(q) ==
    WriteLabels(nameToLabels(q.Name)) \o << 0 >> \o BE16(q.Type) \o BE16(q.Class)

\* The label loop of NewQuestionFromBytes: data[offset] is bounds-checked
\* against len, data[offset:offset+length] against cap.
RECURSIVE ReadLabels(_, _, _)
ReadLabels(s, offset, labels) ==
    IF offset >= s.len
    THEN [kind |-> "panic"]
    ELSE LET length == SAt(s, offset)
         IN  IF length = 0
             THEN [kind |-> "ok", labels |-> labels, offset |-> offset + 1]
             ELSE IF offset + 1 + length > s.cap
             THEN [kind |-> "panic"]
             ELSE ReadLabels(s, offset + 1 + length,
                             Append(labels, SBytes(s, offset + 1, length)))

\* NewQuestionFromBytes without the check of data[0].
NewQuestionFromBytesNoZeroCheck(s) ==
    IF s.len <= 0 THEN [kind |-> "err"]
    ELSE LET l == ReadLabels(s, 0, << >>)
         IN  IF l.kind = "panic" THEN [kind |-> "panic"]
             ELSE IF l.offset + 4 > s.cap THEN [kind |-> "panic"]
             ELSE [kind |-> "ok",
                   q |-> [Name  |-> Join(l.labels),
                          Type  |-> U16(SAt(s, l.offset), SAt(s, l.offset + 1)),
                          Class |-> U16(SAt(s, l.offset + 2), SAt(s, l.offset + 3))],
                   n |-> l.offset + 4]

NewQuestionFromBytes(s) ==
    IF s.len <= 0 THEN [kind |-> "err"]
    ELSE IF SAt(s, 0) <= 0 THEN [kind |-> "err"]
    ELSE LET l == ReadLabels(s, 0, << >>)
         IN  IF l.kind = "panic" THEN [kind |-> "panic"]
             ELSE IF l.offset + 4 > s.cap THEN [kind |-> "panic"]
             ELSE [kind |-> "ok",
                   q |-> [Name  |-> Join(l.labels),
                          Type  |-> U16(SAt(s, l.offset), SAt(s, l.offset + 1)),
                          Class |-> U16(SAt(s, l.offset + 2), SAt(s, l.offset + 3))],
                   n |-> l.offset + 4]

\* ------------------------------------------------------------------ Answer

AnswerMarshalBinary(a) ==
    WriteLabels(nameToLabels(a.Name)) \o << 0 >> \o BE16(a.Type) \o BE16(a.Class)
        \o BE32(a.TTL) \o BE16(a.Length) \o a.Data

\* ----------------------------------------------------------------- Message

\* The question loop without data = data[n:]: every question is read at data[12:].
RECURSIVE ReadQuestionsFromStart(_, _, _)
ReadQuestionsFromStart(s, left, questions) ==
    IF left = 0 THEN [kind |-> "ok", questions |-> questions]
    ELSE IF s.len < HeaderSize THEN [kind |-> "panic"]
    ELSE LET r == NewQuestionFromBytes(SliceFrom(s, HeaderSize))
         IN  IF r.kind # "ok" THEN [kind |-> r.kind]
             ELSE ReadQuestionsFromStart(s, left - 1, Append(questions, r.q))

\* The question loop of NewMessageFromBytes: data[12:] and data[n:] are
\* bounds-checked against len.
RECURSIVE ReadQuestions(_, _, _)
ReadQuestions(s, left, questions) ==
    IF left = 0 THEN [kind |-> "ok", questions |-> questions]
    ELSE IF s.len < HeaderSize THEN [kind |-> "panic"]
    ELSE LET r == NewQuestionFromBytes(SliceFrom(s, HeaderSize))
         IN  IF r.kind # "ok" THEN [kind |-> r.kind]
             ELSE IF r.n > s.len THEN [kind |-> "panic"]
             ELSE ReadQuestions(SliceFrom(s, r.n), left - 1, Append(questions, r.q))

NewMessageFromBytes(s) ==
    LET hr == NewHeaderFromBytes(s)
    IN  IF hr.kind # "ok" THEN [kind |-> "err"]
        ELSE LET qr == ReadQuestions(s, hr.h.QuestionsCount, << >>)
             IN  IF qr.kind # "ok" THEN [kind |-> qr.kind]
                 ELSE [kind |-> "ok",
                       msg |-> [Header    |-> [hr.h EXCEPT !.QuestionsCount =
                                                   Len(qr.questions) % 65536],
                                Questions |-> qr.questions,
                                Answers   |-> << >>]]

RECURSIVE MarshalQuestions(_)
MarshalQuestions(qs) ==
    IF Len(qs) = 0 THEN << >>
    ELSE QuestionMarshalBinary(qs[1]) \o MarshalQuestions(Tail(qs))

RECURSIVE MarshalAnswers(_)
MarshalAnswers(as) ==
    IF Len(as) = 0 THEN << >>
    ELSE AnswerMarshalBinary(as[1]) \o MarshalAnswers(Tail(as))

MessageMarshalBinary(m) ==
    HeaderMarshalBinary(m.Header) \o MarshalQuestions(m.Questions)
        \o MarshalAnswers(m.Answers)

AddAnswers(m, answers) == [m EXCEPT !.Answers = answers]

\* SetResponse without m.Header.AdditionalCount = 0.
SetResponseKeepsAdditional(m, lenAnswers) ==
    [m EXCEPT !.Header = [SetQuery(@, FALSE) EXCEPT !.AnswerCount = lenAnswers % 65536]]

SetResponse(m, lenAnswers) ==
    [m EXCEPT !.Header = [SetQuery(@, FALSE) EXCEPT !.AnswerCount = lenAnswers % 65536,
                                                    !.AdditionalCount = 0]]

MockedData == << 8, 8, 8, 8 >>

NewAnswer(question) ==
    [Name |-> question.Name, Type |-> question.Type, Class |-> question.Class,
     TTL |-> DefaultTTL, Length |-> Len(MockedData) % 65536, Data |-> MockedData]

ProcessQuestions(m) ==
    LET answers == [i \in 1..Len(m.Questions) |-> NewAnswer(m.Questions[i])]
    IN  SetResponse(AddAnswers(m, answers), Len(answers))

\* ------------------------------------------------------------------ inputs

\* The values of Options.Resolver a server is constructed with.
Resolvers == { "", "1.1.1.1:53" }

\* The addresses datagrams come from.
Addrs == { "client1", "client2" }

Hdr(id, flags, qd, an, ns, ar) == HeaderMarshalBinary(NewHeader(id, flags, qd, an, ns, ar))

\* One question a.b / 1 / 1, all flags clear (the shape of createTestQuery).
QTest == Hdr(12345, 0, 1, 0, 0, 0) \o << 1, 97, 1, 98, 0, 0, 1, 0, 1 >>

\* Two questions, RD set, RCODE 3, and answer and additional counts of 1.
QTwo == Hdr(7, 259, 2, 1, 0, 1) \o << 1, 97, 0, 0, 1, 0, 1 >> \o << 1, 99, 0, 0, 28, 0, 1 >>

\* No question, an additional count of 1.
QNone == Hdr(1, 256, 0, 0, 0, 1)

\* One question whose only label is the byte '.'.
QDot == Hdr(2, 0, 1, 0, 0, 0) \o << 1, 46, 0, 0, 1, 0, 1 >>

\* Fewer than 12 bytes.
QShort == << 0, 0, 0, 0 >>

\* One question announced, the first label length is zero.
QZeroLabel == Hdr(3, 0, 1, 0, 0, 0) \o << 0, 0, 1, 0, 1 >>

\* One question announced, nothing after the header.
QHeaderOnly == Hdr(4, 0, 1, 0, 0, 0)

\* One question announced, a label of 3 bytes of which 1 is there.
QTruncLabel == Hdr(5, 0, 1, 0, 0, 0) \o << 3, 97 >>

\* One question announced, the name is whole, type and class are cut short.
QTruncFields == Hdr(6, 0, 1, 0, 0, 0) \o << 1, 97, 0, 0 >>

Datagrams ==
    { QTest, QTwo, QNone, QDot, QShort, QZeroLabel, QHeaderOnly, QTruncLabel, QTruncFields }

\* What the upstream resolver replies.
Replies == { Hdr(12345, 33152, 1, 1, 0, 0) \o << 1, 97, 0, 0, 1, 0, 1 >>, << 9, 9, 9 >> }

\* err of conn.ReadFrom: a net.Error whose Timeout() is true, a net.Error
\* whose Timeout() is false, an error that is no net.Error.
ReadErrors == { "timeout", "neterr", "other" }

\* ------------------------------------------------------------------- state

VARIABLES
    resolver,    \* s.opts.Resolver
    cancelled,   \* ctx.Done() is closed
    loopState,   \* "Running", "Stopped" (ListenAndServe returned), "Panicked"
    pc,          \* where ListenAndServe is: select, read, dispatch, fwd_write, fwd_read, done
    closeCount,  \* calls of conn.Close() on the listening socket
    buf,         \* the written bytes of ListenAndServe's buf
    n,           \* n of the last successful ReadFrom
    addr,        \* addr of the last successful ReadFrom
    lastErr,     \* err of the last ReadFrom: "nil" or one of ReadErrors
    upOpen,      \* open upstream associations (net.Dial without Close)
    writeCount,  \* calls of conn.WriteTo on the listening socket
    lastWrite,   \* the bytes and the address of the last conn.WriteTo
    msg,         \* the Message the last handler encoded
    readCount,   \* datagrams read from the listening socket
    last,        \* the last datagram whose handling ended, and how it ended
    forward,     \* the forward of the datagram read last: calls of net.Dial and of
                 \* conn.Write for it, and the bytes the upstream was last sent
    codec        \* a call of the codec on its own: input, encoding, decoding

vars == << resolver, cancelled, loopState, pc, closeCount, buf, n, addr, lastErr,
           upOpen, writeCount, lastWrite, msg, readCount, last, forward, codec >>

NoMessage == [Header |-> NewHeader(0, 0, 0, 0, 0, 0), Questions |-> << >>, Answers |-> << >>]

NoWrite == [data |-> << >>, addr |-> "none"]

NoDatagram ==
    [data |-> << >>, addr |-> "none", mode |-> "none", fwd |-> "none", reply |-> << >>,
     out |-> "none", writes |-> 0]

NoForward == [dials |-> 0, sends |-> 0, sent |-> << >>]

NoCodec == [op |-> "none", stage |-> "none", in |-> << >>, bytes |-> << >>, out |-> << >>]

\* The server as NewServer and the entry of ListenAndServe leave it.
ServerInit ==
    /\ resolver \in Resolvers
    /\ cancelled = FALSE
    /\ loopState = "Running"
    /\ pc = "select"
    /\ closeCount = 0
    /\ buf = << >>
    /\ n = 0
    /\ addr = "none"
    /\ lastErr = "nil"
    /\ upOpen = 0
    /\ writeCount = 0
    /\ lastWrite = NoWrite
    /\ msg = NoMessage
    /\ readCount = 0
    /\ last = NoDatagram
    /\ forward = NoForward

Init ==
    /\ ServerInit
    /\ codec = NoCodec

\* The dispatch forwarding whatever the resolver is.
shouldForwardQueryAlways == TRUE

shouldForwardQuery == resolver # ""

\* buf[:n]
QueryBytes == [mem |-> buf, off |-> 0, len |-> n, cap |-> BufSize]

\* The timeout test failing for every error.
IsTimeoutNever(err) == FALSE

\* The timeout test without netErr.Timeout(): any net.Error passes.
IsTimeoutAnyNetError(err) == err \in { "timeout", "neterr" }

\* netErr, ok := err.(net.Error); ok && netErr.Timeout()
IsTimeout(err) == err = "timeout"

\* ---------------------------------------------------------------- the loop

\* ListenAndServe returning without the deferred conn.Close().
ReturnWithoutClose ==
    /\ loopState' = "Stopped"
    /\ pc' = "done"
    /\ closeCount' = closeCount

\* ListenAndServe returns: the deferred conn.Close() runs.
Return ==
    /\ loopState' = "Stopped"
    /\ pc' = "done"
    /\ closeCount' = closeCount + 1

\* A run-time panic unwinds ListenAndServe: the deferred conn.Close() runs and,
\* nothing recovering it, the process ends.
Panic ==
    /\ loopState' = "Panicked"
    /\ pc' = "done"
    /\ closeCount' = closeCount + 1

\* The handler returned: back to the top of the loop.
Continue ==
    /\ pc' = "select"
    /\ UNCHANGED << loopState, closeCount >>

\* conn.WriteTo(bytes, to) on the listening socket
WriteTo(bytes, to) ==
    /\ writeCount' = writeCount + 1
    /\ lastWrite' = [data |-> bytes, addr |-> to]

\* The record of the datagram in buf[:n], its handling over: fwd is "none"
\* (not forwarded), "ok" (the upstream replied with reply) or the call of
\* forwardQuery that failed ("dial", "write", "read"); out is the way the
\* handler ended and writes what it wrote to the listening socket.
Handled(fwd, reply, out) ==
    [data |-> Take(buf, n), addr |-> addr,
     mode |-> IF shouldForwardQuery THEN "forward" ELSE "local",
     fwd |-> fwd, reply |-> reply, out |-> out, writes |-> writeCount' - writeCount]

\* The external cancellation signal.
Cancel ==
    /\ ~cancelled
    /\ cancelled' = TRUE
    /\ UNCHANGED << codec, forward, resolver, loopState, pc, closeCount, buf, n, addr,
                    lastErr, upOpen, writeCount, lastWrite, msg, readCount, last >>

\* The loop without the case <-ctx.Done().
CheckCancelNeverDone ==
    /\ pc = "select"
    /\ pc' = "read"
    /\ UNCHANGED << codec, forward, resolver, cancelled, loopState, closeCount, buf, n,
                    addr, lastErr, upOpen, writeCount, lastWrite, msg, readCount, last >>

\* select { case <-ctx.Done(): return; default: ... }
CheckCancel ==
    /\ pc = "select"
    /\ IF cancelled
       THEN Return
       ELSE /\ pc' = "read"
            /\ UNCHANGED << loopState, closeCount >>
    /\ UNCHANGED << codec, forward, resolver, cancelled, buf, n, addr, lastErr, upOpen,
                    writeCount, lastWrite, msg, readCount, last >>

\* conn.ReadFrom(buf) returns err: continue on a timeout, else return.
ReadFail(err) ==
    /\ pc = "read"
    /\ lastErr' = err
    /\ IF IsTimeout(err) THEN Continue ELSE Return
    /\ UNCHANGED << codec, forward, resolver, cancelled, buf, n, addr, upOpen, writeCount,
                    lastWrite, msg, readCount, last >>

ReadFromError == \E err \in ReadErrors : ReadFail(err)

\* The loop going on to its next iteration with the datagram it read not handled.
ReadFromDatagramNotHandled ==
    /\ pc = "read"
    /\ readCount < MaxReads
    /\ \E d \in Datagrams, a \in Addrs :
          /\ buf' = Copy(buf, d)
          /\ n' = Min(Len(d), BufSize)
          /\ addr' = a
    /\ lastErr' = "nil"
    /\ readCount' = readCount + 1
    /\ forward' = NoForward
    /\ pc' = "select"
    /\ UNCHANGED << codec, resolver, cancelled, loopState, closeCount, upOpen, writeCount,
                    lastWrite, msg, last >>

\* conn.ReadFrom(buf) returns a datagram: its bytes are copied over buf.
ReadFromDatagram ==
    /\ pc = "read"
    /\ readCount < MaxReads
    /\ \E d \in Datagrams, a \in Addrs :
          /\ buf' = Copy(buf, d)
          /\ n' = Min(Len(d), BufSize)
          /\ addr' = a
    /\ lastErr' = "nil"
    /\ readCount' = readCount + 1
    /\ forward' = NoForward
    /\ pc' = "dispatch"
    /\ UNCHANGED << codec, resolver, cancelled, loopState, closeCount, upOpen, writeCount,
                    lastWrite, msg, last >>

\* handleLocalQuery(conn, addr, buf[:n])
handleLocalQuery ==
    LET r == NewMessageFromBytes(QueryBytes)
    IN  CASE r.kind = "panic" ->
               /\ Panic
               /\ UNCHANGED << writeCount, lastWrite, msg >>
               /\ last' = Handled("none", << >>, "panic")
          [] r.kind = "err" ->
               /\ Continue
               /\ UNCHANGED << writeCount, lastWrite, msg >>
               /\ last' = Handled("none", << >>, "dropped")
          [] r.kind = "ok" ->
               LET m == ProcessQuestions(r.msg)
               IN  /\ Continue
                   /\ msg' = m
                   /\ WriteTo(MessageMarshalBinary(m), addr)
                   /\ last' = Handled("none", << >>, "answered")

\* handleForwardedQuery logging the error of forwardQuery and returning.
handleForwardingErrorOnlyLogs(err) ==
    /\ Continue
    /\ UNCHANGED << writeCount, lastWrite, msg >>
    /\ last' = Handled(err, << >>, "dropped")

\* handleForwardingError(conn, addr, buf[:n]), called by handleForwardedQuery
\* when forwardQuery returned the error err
handleForwardingError(err) ==
    LET r == NewMessageFromBytes(QueryBytes)
    IN  CASE r.kind = "panic" ->
               /\ Panic
               /\ UNCHANGED << writeCount, lastWrite, msg >>
               /\ last' = Handled(err, << >>, "panic")
          [] r.kind = "err" ->
               /\ Continue
               /\ UNCHANGED << writeCount, lastWrite, msg >>
               /\ last' = Handled(err, << >>, "dropped")
          [] r.kind = "ok" ->
               LET m == [r.msg EXCEPT !.Header =
                            [SetResponseCode(@, RCODE_SERVER_FAILURE)
                                EXCEPT !.AdditionalCount = 0]]
               IN  /\ Continue
                   /\ msg' = m
                   /\ WriteTo(MessageMarshalBinary(m), addr)
                   /\ last' = Handled(err, << >>, "fallback")

\* handleForwardedQuery writing queryBytes back in place of responseBytes.
relayQueryBytes(responseBytes) ==
    /\ Continue
    /\ WriteTo(Take(buf, n), addr)
    /\ UNCHANGED msg

\* handleForwardedQuery, forwardQuery returned responseBytes:
\* conn.WriteTo(responseBytes, addr)
relayResponse(responseBytes) ==
    /\ Continue
    /\ WriteTo(responseBytes, addr)
    /\ UNCHANGED msg

\* The local dispatch of one datagram.
DispatchLocal ==
    /\ pc = "dispatch"
    /\ ~shouldForwardQuery
    /\ handleLocalQuery
    /\ UNCHANGED << codec, forward, resolver, cancelled, buf, n, addr, lastErr, upOpen,
                    readCount >>

\* handleForwardedQuery calling forwardQuery again when net.Dial failed.
ForwardDialRetries ==
    /\ pc = "dispatch"
    /\ shouldForwardQuery
    /\ forward' = [forward EXCEPT !.dials = @ + 1]
    /\ \E ok \in BOOLEAN :
          /\ IF ok
             THEN upOpen' = upOpen + 1 /\ pc' = "fwd_write"
             ELSE upOpen' = upOpen /\ pc' = "dispatch"
          /\ UNCHANGED << loopState, closeCount, writeCount, lastWrite, msg, last >>
    /\ UNCHANGED << codec, resolver, cancelled, buf, n, addr, lastErr, readCount >>

\* handleForwardedQuery up to forwardQuery's net.Dial.
ForwardDial ==
    /\ pc = "dispatch"
    /\ shouldForwardQuery
    /\ forward' = [forward EXCEPT !.dials = @ + 1]
    /\ \E ok \in BOOLEAN :
          IF ok
          THEN /\ upOpen' = upOpen + 1
               /\ pc' = "fwd_write"
               /\ UNCHANGED << loopState, closeCount, writeCount, lastWrite, msg, last >>
          ELSE /\ handleForwardingError("dial")
               /\ UNCHANGED upOpen
    /\ UNCHANGED << codec, resolver, cancelled, buf, n, addr, lastErr, readCount >>

\* forwardQuery without the deferred conn.Close(), closing after the read only.
ForwardWriteLeaks ==
    /\ pc = "fwd_write"
    /\ \E ok \in BOOLEAN :
          IF ok
          THEN /\ forward' = [forward EXCEPT !.sends = @ + 1, !.sent = Take(buf, n)]
               /\ pc' = "fwd_read"
               /\ UNCHANGED << loopState, closeCount, upOpen, writeCount, lastWrite,
                               msg, last >>
          ELSE /\ forward' = [forward EXCEPT !.sends = @ + 1]
               /\ upOpen' = upOpen
               /\ handleForwardingError("write")
    /\ UNCHANGED << codec, resolver, cancelled, buf, n, addr, lastErr, readCount >>

\* forwardQuery writing the whole of buf in place of buf[:n].
ForwardWriteWholeBuffer ==
    /\ pc = "fwd_write"
    /\ \E ok \in BOOLEAN :
          IF ok
          THEN /\ forward' = [forward EXCEPT !.sends = @ + 1,
                                             !.sent = [k \in 1..BufSize |-> ByteAt(buf, k - 1)]]
               /\ pc' = "fwd_read"
               /\ UNCHANGED << loopState, closeCount, upOpen, writeCount, lastWrite,
                               msg, last >>
          ELSE /\ forward' = [forward EXCEPT !.sends = @ + 1]
               /\ upOpen' = upOpen - 1
               /\ handleForwardingError("write")
    /\ UNCHANGED << codec, resolver, cancelled, buf, n, addr, lastErr, readCount >>

\* forwardQuery's conn.Write(queryBytes); on an error the deferred Close runs.
ForwardWrite ==
    /\ pc = "fwd_write"
    /\ \E ok \in BOOLEAN :
          IF ok
          THEN /\ forward' = [forward EXCEPT !.sends = @ + 1, !.sent = Take(buf, n)]
               /\ pc' = "fwd_read"
               /\ UNCHANGED << loopState, closeCount, upOpen, writeCount, lastWrite,
                               msg, last >>
          ELSE /\ forward' = [forward EXCEPT !.sends = @ + 1]
               /\ upOpen' = upOpen - 1
               /\ handleForwardingError("write")
    /\ UNCHANGED << codec, resolver, cancelled, buf, n, addr, lastErr, readCount >>

\* forwardQuery's conn.Read(buf): the upstream's reply, of which at most 1024
\* bytes are read, or an error (the deadline included); the deferred Close
\* runs either way.
ForwardRead ==
    /\ pc = "fwd_read"
    /\ upOpen' = upOpen - 1
    /\ \/ \E reply \in Replies :
             /\ relayResponse(Take(reply, BufSize))
             /\ last' = Handled("ok", reply, "relayed")
       \/ handleForwardingError("read")
    /\ UNCHANGED << codec, forward, resolver, cancelled, buf, n, addr, lastErr,
                    readCount >>

Next ==
    \/ Cancel
    \/ CheckCancel
    \/ ReadFromError
    \/ ReadFromDatagram
    \/ DispatchLocal
    \/ ForwardDial
    \/ ForwardWrite
    \/ ForwardRead

Spec == Init /\ [][Next]_vars

\* ------------------------------------------------- the loop, idle once cancelled

\* conn.ReadFrom(buf) when no datagram and no socket error follows the
\* cancellation: once cancelled, every read times out.
ReadFromErrorIdle ==
    \E err \in ReadErrors :
        /\ cancelled => err = "timeout"
        /\ ReadFail(err)

ReadFromDatagramIdle ==
    /\ ~cancelled
    /\ ReadFromDatagram

NextIdle ==
    \/ Cancel
    \/ CheckCancel
    \/ ReadFromErrorIdle
    \/ ReadFromDatagramIdle
    \/ DispatchLocal
    \/ ForwardDial
    \/ ForwardWrite
    \/ ForwardRead

\* The goroutine keeps running: the select at the top of the loop does not
\* block, and ReadFrom returns within its 100 ms deadline.
IdleSpec == Init /\ [][NextIdle]_vars /\ WF_vars(CheckCancel) /\ WF_vars(ReadFromErrorIdle)

\* ------------------------------------------- the codec, called on its own

\* The values a header field is given: 258 is 01 02 on the wire.
HeaderValues == { 0, 258, 65535 }

CodecHeaders ==
    { NewHeader(id, flags, qd, an, ns, ar) :
        id \in HeaderValues, flags \in HeaderValues, qd \in HeaderValues,
        an \in HeaderValues, ns \in HeaderValues, ar \in HeaderValues }

\* A name of one label of 255 bytes, the longest name of the data model.
LongName == [k \in 1..255 |-> 97]

\* a, a.b, ab.c and the long name.
CodecNames == { << 97 >>, << 97, Dot, 98 >>, << 97, 98, Dot, 99 >>, LongName }

CodecQuestions == { [Name |-> nm, Type |-> t, Class |-> 1] : nm \in CodecNames, t \in { 1, 28 } }

\* Messages with questions only, whose header counts the questions.
CodecMessages ==
    { [Header    |-> NewHeader(12345, 256, Len(qs), 0, 0, ar),
       Questions |-> qs,
       Answers   |-> << >>] :
        qs \in UNION { [1..k -> CodecQuestions] : k \in 1..MaxQuestions }, ar \in { 0, 1 } }

\* Two questions announced, one there.
QMissingSecond == Hdr(8, 0, 2, 0, 0, 0) \o << 1, 97, 0, 0, 1, 0, 1 >>

\* One question announced, two there.
QExtra == Hdr(9, 0, 1, 0, 0, 0) \o << 1, 97, 0, 0, 1, 0, 1 >> \o << 1, 99, 0, 0, 28, 0, 1 >>

\* The slices NewMessageFromBytes is called on: a datagram alone in its
\* backing array, and buf[:n] of a buffer of BufSize bytes that is new or
\* held QTwo before.
DecodeInputs ==
    { SliceOf(d) : d \in Datagrams \cup { QMissingSecond, QExtra } }
        \cup { [mem |-> Copy(prev, d), off |-> 0, len |-> Len(d), cap |-> BufSize] :
                 d \in Datagrams \cup { QMissingSecond, QExtra }, prev \in { << >>, QTwo } }

\* Bit i of a uint16.
Bit(v, i) == (v \div (2 ^ i)) % 2

\* Flags: none, all, each bit alone, all but each bit, and two mixed values.
FlagsValues ==
    { 0, 65535, 33152, 259 }
        \cup { 2 ^ i : i \in 0..15 } \cup { 65535 - 2 ^ i : i \in 0..15 }

\* code uint8: the RCODEs, and values above 15.
Codes == { 0, 1, 2, 3, 4, 5, 15, 16, 18, 255 }

\* Headers whose fields other than Flags differ from each other.
FlagsHeaders == { NewHeader(1, flags, 2, 3, 4, 5) : flags \in FlagsValues }

\* The calls of SetResponseCode and SetQuery.
SetterInputs ==
    { [op |-> "SetResponseCode", stage |-> "input", in |-> [h |-> h, code |-> code, isQuery |-> FALSE],
       bytes |-> << >>, out |-> << >>] : h \in FlagsHeaders, code \in Codes }
        \cup { [op |-> "SetQuery", stage |-> "input", in |-> [h |-> h, code |-> 0, isQuery |-> isQuery],
                 bytes |-> << >>, out |-> << >>] : h \in FlagsHeaders, isQuery \in BOOLEAN }

CodecInputs ==
    SetterInputs
        \cup
    { [op |-> "header", stage |-> "input", in |-> h, bytes |-> << >>, out |-> << >>] :
        h \in CodecHeaders }
        \cup { [op |-> "message", stage |-> "input", in |-> m, bytes |-> << >>, out |-> << >>] :
                 m \in CodecMessages }
        \cup { [op |-> "decode", stage |-> "input", in |-> d, bytes |-> << >>, out |-> << >>] :
                 d \in DecodeInputs }

serverVars == << resolver, cancelled, loopState, pc, closeCount, buf, n, addr, lastErr,
                 upOpen, writeCount, lastWrite, msg, readCount, last, forward >>

\* A value to encode or bytes to decode are chosen; no server runs.
CodecInit ==
    /\ ServerInit
    /\ resolver = ""
    /\ codec \in CodecInputs

\* Header.MarshalBinary / Message.MarshalBinary
CodecEncode ==
    /\ codec.stage = "input"
    /\ codec.op \in { "header", "message" }
    /\ codec' = [codec EXCEPT !.stage = "encoded",
                              !.bytes = IF codec.op = "header"
                                        THEN HeaderMarshalBinary(codec.in)
                                        ELSE MessageMarshalBinary(codec.in)]
    /\ UNCHANGED serverVars

\* NewHeaderFromBytes / NewMessageFromBytes, on the bytes encoded or given.
CodecDecode ==
    /\ \/ codec.stage = "encoded"
       \/ codec.stage = "input" /\ codec.op = "decode"
    /\ codec' = [codec EXCEPT !.stage = "decoded",
                              !.out = CASE codec.op = "header" ->
                                             NewHeaderFromBytes(SliceOf(codec.bytes))
                                        [] codec.op = "message" ->
                                             NewMessageFromBytes(SliceOf(codec.bytes))
                                        [] codec.op = "decode" ->
                                             NewMessageFromBytes(codec.in)]
    /\ UNCHANGED serverVars

\* h.SetResponseCode(code) / h.SetQuery(isQuery)
CodecSet ==
    /\ codec.stage = "input"
    /\ codec.op \in { "SetResponseCode", "SetQuery" }
    /\ codec' = [codec EXCEPT !.stage = "set",
                              !.out = IF codec.op = "SetResponseCode"
                                      THEN SetResponseCode(codec.in.h, codec.in.code)
                                      ELSE SetQuery(codec.in.h, codec.in.isQuery)]
    /\ UNCHANGED serverVars

CodecNext == CodecEncode \/ CodecDecode \/ CodecSet

CodecSpec == CodecInit /\ [][CodecNext]_vars

\* ------------------------------------------------- vocabulary of the claims

\* The header fields of a datagram of at least 12 bytes, read off the wire.
WireFlags(d) == U16(d[3], d[4])

WireQuestionsCount(d) == U16(d[5], d[6])

WireAnswerCount(d) == U16(d[7], d[8])

WireAdditionalCount(d) == U16(d[11], d[12])

WireRcode(d) == WireFlags(d) % 16

WireQR(d) == (WireFlags(d) \div 32768) % 2

\* Where the name starting at byte pos (from 0) of d ends, -1 if d ends first.
RECURSIVE NameEnd(_, _)
NameEnd(d, pos) ==
    IF pos >= Len(d) THEN -1
    ELSE IF d[pos + 1] = 0 THEN pos + 1
    ELSE IF pos + 1 + d[pos + 1] > Len(d) THEN -1
    ELSE NameEnd(d, pos + 1 + d[pos + 1])

\* Where count whole questions starting at byte pos of d end, -1 if one of
\* them starts with a zero length byte or d ends first.
RECURSIVE QuestionsEnd(_, _, _)
QuestionsEnd(d, pos, count) ==
    IF count = 0 THEN pos
    ELSE IF pos >= Len(d) \/ d[pos + 1] = 0 THEN -1
    ELSE LET e == NameEnd(d, pos)
         IN  IF e < 0 \/ e + 4 > Len(d) THEN -1
             ELSE QuestionsEnd(d, e + 4, count - 1)

\* A validly encoded query: a whole header and, within the datagram, as many
\* whole questions as the header announces.
ValidQuery(d) ==
    /\ Len(d) >= 12
    /\ QuestionsEnd(d, 12, WireQuestionsCount(d)) >= 0

\* The malformed datagrams of the spec: fewer than 12 bytes, or a first
\* question whose first label length byte is zero.
Malformed(d) ==
    \/ Len(d) < 12
    \/ /\ WireQuestionsCount(d) >= 1
       /\ Len(d) > 12
       /\ d[13] = 0

\* The datagram being handled.
Datagram == Take(buf, n)

\* This step ends the handling of the datagram read last.
HandlingEnds ==
    /\ pc \in { "dispatch", "fwd_write", "fwd_read" }
    /\ pc' \in { "select", "done" }

\* ------------------------------------------------------------------ claims

\* C1: the listening socket is closed exactly once on every exit of the loop
\* and never while it runs: closeCount is 0 while Running and 1 once Stopped.
C1_ClosedExactlyOnce ==
    /\ loopState = "Running" => closeCount = 0
    /\ loopState = "Stopped" => closeCount = 1

\* The loop has stopped on a cancellation observed after a datagram was handled.
C1_Witness ==
    /\ loopState = "Stopped"
    /\ closeCount = 1
    /\ cancelled
    /\ lastErr \in { "nil", "timeout" }
    /\ readCount > 0

\* C2: in forwarding mode, a failed forward of a validly encoded query is
\* answered by exactly one response, written to the address the query came
\* from, with RCODE 2 and AdditionalCount 0 whatever the query carried.
C2_FallbackIsServerFailure ==
    (last.mode = "forward" /\ last.fwd \in { "dial", "write", "read" } /\ ValidQuery(last.data))
        => /\ last.writes = 1
           /\ lastWrite.addr = last.addr
           /\ Len(lastWrite.data) >= 12
           /\ WireRcode(lastWrite.data) = 2
           /\ WireAdditionalCount(lastWrite.data) = 0

\* The forward of QTwo (RCODE 3, AdditionalCount 1) failed and was answered.
C2_Witness ==
    /\ last.mode = "forward"
    /\ last.fwd = "write"
    /\ last.data = QTwo
    /\ WireRcode(last.data) = 3
    /\ WireAdditionalCount(last.data) = 1
    /\ last.writes = 1

\* C3 as stated: every datagram whose forward failed is answered with a
\* server-failure response, none is dropped without a response (runs that a
\* panic ended set aside).
C3_EveryForwardFailureAnswered ==
    (last.mode = "forward" /\ last.fwd \in { "dial", "write", "read" } /\ last.out # "panic")
        => /\ last.out = "fallback"
           /\ last.writes = 1

\* C3, amended: every validly encoded query whose forward failed, at the dial,
\* the write or the read (deadline and timeout included), is answered with one
\* server-failure response; a datagram the decoder rejects with an error is
\* the one that is dropped without a response.
C3_ValidForwardFailureAnswered ==
    /\ (last.mode = "forward" /\ last.fwd \in { "dial", "write", "read" } /\ ValidQuery(last.data))
          => /\ last.out = "fallback"
             /\ last.writes = 1
             /\ WireRcode(lastWrite.data) = RCODE_SERVER_FAILURE
    /\ (last.mode = "forward" /\ last.out = "dropped")
          => /\ last.fwd \in { "dial", "write", "read" }
             /\ ~ValidQuery(last.data)
             /\ last.writes = 0

\* A read error of the forward (its deadline passing is one) was recovered
\* into a response.
C3_Witness ==
    /\ last.mode = "forward"
    /\ last.fwd = "read"
    /\ ValidQuery(last.data)
    /\ last.out = "fallback"
    /\ WireRcode(lastWrite.data) = 2

\* C4: in forwarding mode, a reply of the upstream is written once, to the
\* address the query came from, byte for byte, and no fallback is sent.
C4_ReplyRelayedVerbatim ==
    (last.mode = "forward" /\ last.fwd = "ok")
        => /\ last.writes = 1
           /\ last.out = "relayed"
           /\ lastWrite = [data |-> last.reply, addr |-> last.addr]

\* A reply that is no DNS message was relayed for a query.
C4_Witness ==
    /\ last.mode = "forward"
    /\ last.fwd = "ok"
    /\ last.data = QTest
    /\ last.reply = << 9, 9, 9 >>
    /\ lastWrite.data = << 9, 9, 9 >>

\* C5: a query decoded with N questions is answered locally with N answers,
\* answer i carrying name, type and class of question i, TTL 60, Data 8.8.8.8
\* and Length 4; AnswerCount is N, AdditionalCount 0 and QR 1, in the message
\* and in the bytes written to the address the query came from.
C5_OneAnswerPerQuestion ==
    (last.mode = "local" /\ last.out = "answered")
        => LET N == WireQuestionsCount(last.data)
           IN  /\ Len(msg.Questions) = N
               /\ Len(msg.Answers) = N
               /\ \A i \in 1..N :
                     /\ msg.Answers[i].Name = msg.Questions[i].Name
                     /\ msg.Answers[i].Type = msg.Questions[i].Type
                     /\ msg.Answers[i].Class = msg.Questions[i].Class
                     /\ msg.Answers[i].TTL = 60
                     /\ msg.Answers[i].Data = << 8, 8, 8, 8 >>
                     /\ msg.Answers[i].Length = 4
               /\ msg.Header.AnswerCount = N
               /\ msg.Header.AdditionalCount = 0
               /\ (msg.Header.Flags \div 32768) % 2 = 1
               /\ last.writes = 1
               /\ lastWrite.addr = last.addr
               /\ WireAnswerCount(lastWrite.data) = N
               /\ WireAdditionalCount(lastWrite.data) = 0
               /\ WireQR(lastWrite.data) = 1
               /\ Len(lastWrite.data) =
                     12 + Len(MarshalQuestions(msg.Questions))
                        + Len(MarshalQuestions(msg.Questions)) + 10 * N

\* The query of two questions, which carried AnswerCount 1 and
\* AdditionalCount 1, was answered with two answers.
C5_Witness ==
    /\ last.mode = "local"
    /\ last.out = "answered"
    /\ last.data = QTwo
    /\ Len(msg.Answers) = 2
    /\ msg.Answers[2].Type = 28
    /\ WireAnswerCount(lastWrite.data) = 2

\* The query with ID 12345 and one question was answered with one answer.
C5_WitnessExample ==
    /\ last.mode = "local"
    /\ last.data = QTest
    /\ msg.Header.ID = 12345
    /\ msg.Header.AnswerCount = 1
    /\ Len(msg.Answers) = 1

\* The server decodes the datagram it is handling in this step.
ServerDecodes ==
    \/ pc = "dispatch" /\ ~shouldForwardQuery
    \/ /\ pc \in { "dispatch", "fwd_write", "fwd_read" }
       /\ shouldForwardQuery
       /\ last'.fwd \in { "dial", "write", "read" }

\* The datagram whose handling ends in this step is dropped: nothing is
\* written, the listening socket stays open, the loop is back at its top.
DroppedInStep ==
    /\ writeCount' = writeCount
    /\ lastWrite' = lastWrite
    /\ loopState' = "Running"
    /\ closeCount' = 0
    /\ pc' = "select"

C6_WitnessZeroLabel ==
    /\ last.mode = "forward"
    /\ last.data = QZeroLabel
    /\ last.out = "dropped"
    /\ loopState = "Running"

\* C7: a decode failure is never fatal: a datagram that is no validly encoded
\* query, one cut short inside a label or inside type and class included, is
\* dropped by the server that decodes it, and the loop stays Running.
C7_DecodeFailureNeverFatal ==
    [][(HandlingEnds /\ ~ValidQuery(Datagram) /\ ServerDecodes) => DroppedInStep]_vars

\* C7, second half: the loop leaves Running only on a cancellation observed
\* or a read error that is no timeout.
C7_OnlyReadErrorOrCancelStops ==
    loopState # "Running" => (cancelled \/ lastErr \in { "neterr", "other" })

\* C8: cancellation signalled while the loop is idle (at its top or in a read,
\* every read after it timing out) is eventually observed: the listener is
\* closed and the loop Stopped; and no response is written by the step that
\* observes the cancellation nor after it.
C8_IdleCancelStops ==
    /\ (cancelled /\ pc \in { "select", "read" })
          ~> (loopState = "Stopped" /\ closeCount = 1)
    /\ [][((pc = "select" /\ cancelled) \/ loopState = "Stopped")
            => (writeCount' = writeCount /\ lastWrite' = lastWrite)]_vars

\* The loop stopped on a cancellation it observed after a read that timed out.
C8_Witness ==
    /\ cancelled
    /\ lastErr = "timeout"
    /\ loopState = "Stopped"
    /\ closeCount = 1
    /\ writeCount = 0

\* C9: a read timeout is not an error: the step of a read that times out ends
\* at the top of the loop, Running, with nothing closed and nothing written;
\* and while the last read timed out and no cancellation is signalled, the
\* loop is Running with the listener open, at the cancellation check or in
\* the next read.
C9_TimeoutContinues ==
    /\ [][(pc = "read" /\ pc' # "read" /\ lastErr' = "timeout")
            => /\ pc' = "select"
               /\ loopState' = "Running"
               /\ closeCount' = 0
               /\ writeCount' = writeCount
               /\ lastWrite' = lastWrite]_vars
    /\ []((lastErr = "timeout" /\ ~cancelled)
            => /\ loopState = "Running"
               /\ closeCount = 0
               /\ pc \in { "select", "read" }
               /\ (readCount = 0 => writeCount = 0))

\* A read timed out, nothing was cancelled, and the loop is in its next read.
C9_Witness ==
    /\ lastErr = "timeout"
    /\ ~cancelled
    /\ readCount = 0
    /\ pc = "read"
    /\ loopState = "Running"
    /\ closeCount = 0

\* C10: a read error that is no timeout is fatal to the loop, cancelled or
\* not: the step closes the socket and stops the loop, and a stopped loop
\* reads, dispatches and writes nothing more.
C10_ReadErrorFatal ==
    /\ [][(pc = "read" /\ lastErr' \in { "neterr", "other" })
            => /\ loopState' = "Stopped"
               /\ closeCount' = 1
               /\ pc' = "done"]_vars
    /\ [][loopState = "Stopped"
            => UNCHANGED << loopState, pc, closeCount, buf, n, addr, lastErr, upOpen,
                            writeCount, lastWrite, msg, readCount, last, forward >>]_vars

\* The loop stopped on a socket error with no cancellation signalled.
C10_Witness ==
    /\ lastErr = "neterr"
    /\ ~cancelled
    /\ loopState = "Stopped"
    /\ closeCount = 1
    /\ pc = "done"

\* C11: forwarding is active exactly when the resolver address is not empty,
\* and for the whole life of a server: no step changes the resolver, a
\* datagram goes through forwardQuery exactly when the resolver is not empty
\* and is answered locally only when it is empty.
C11_ForwardingFixed ==
    /\ [][resolver' = resolver]_vars
    /\ [](last.out # "none" => (last.fwd # "none" <=> resolver # ""))
    /\ [](last.out = "answered" => resolver = "")
    /\ [](last.out \in { "relayed", "fallback" } => resolver # "")
    /\ [](pc \in { "fwd_write", "fwd_read" } => resolver # "")
    /\ [](resolver = "" => forward.dials = 0)

\* A second datagram was forwarded by a server with a resolver.
C11_Witness ==
    /\ resolver # ""
    /\ readCount = 2
    /\ last.fwd = "ok"
    /\ pc = "select"

\* A second datagram was answered locally by a server with no resolver.
C11_WitnessLocal ==
    /\ resolver = ""
    /\ readCount = 2
    /\ last.out = "answered"
    /\ pc = "select"

\* C14: datagrams are handled one at a time: a datagram is read only once the
\* handling of the one before it has ended (its record is the last one, no
\* upstream association is open); a response is written only by the step
\* that ends the handling of the datagram read last, to its address, one per
\* datagram at most.
C14_OneAtATime ==
    /\ [][readCount' # readCount
            => /\ readCount' = readCount + 1
               /\ pc = "read"
               /\ upOpen = 0
               /\ readCount >= 1 => (last.data = Take(buf, n) /\ last.addr = addr)]_vars
    /\ [][writeCount' # writeCount
            => /\ writeCount' = writeCount + 1
               /\ HandlingEnds
               /\ lastWrite'.addr = addr
               /\ last'.data = Take(buf, n)
               /\ last'.addr = addr
               /\ readCount' = readCount]_vars
    /\ [](writeCount <= readCount)

\* Two datagrams were read and each was answered.
C14_Witness ==
    /\ readCount = 2
    /\ writeCount = 2
    /\ last.writes = 1
    /\ pc = "select"

\* C15: cancellation is cooperative: once it is signalled, a datagram that
\* was read all the same is handled to its end, its response written when it
\* is a valid query, and the loop goes back to the cancellation check, which
\* stops it; a cancelled loop leaves Running at that check or on a read error
\* and nowhere else.
C15_CancelOnlyAtCheck ==
    /\ [][(cancelled /\ HandlingEnds)
            => /\ pc' = "select"
               /\ loopState' = "Running"
               /\ ValidQuery(Datagram) => writeCount' = writeCount + 1]_vars
    /\ [][(cancelled /\ loopState = "Running" /\ loopState' # "Running")
            => \/ pc = "select" /\ loopState' = "Stopped"
               \/ pc = "read" /\ lastErr' \in { "neterr", "other" }]_vars
    /\ [][(cancelled /\ pc = "select") => loopState' = "Stopped"]_vars

\* The outcome of NewMessageFromBytes on the datagram d read into a buffer
\* that no earlier datagram was read into.
FreshDecode(d) ==
    NewMessageFromBytes([mem |-> d, off |-> 0, len |-> Len(d), cap |-> BufSize])

\* C16: what the server does with a datagram depends on the datagram, the
\* mode and the upstream's outcome only: it is what a server whose buffer
\* never held another datagram does with it.
C16_NoStateAcrossRequests ==
    LET r == FreshDecode(last.data)
    IN  /\ last.out = "dropped" => r.kind = "err"
        /\ last.out = "panic" => r.kind = "panic"
        /\ last.out = "relayed" => lastWrite.data = last.reply
        /\ last.out = "answered"
              => /\ r.kind = "ok"
                 /\ lastWrite.data = MessageMarshalBinary(ProcessQuestions(r.msg))
        /\ last.out = "fallback"
              => /\ r.kind = "ok"
                 /\ Take(lastWrite.data, 2) = Take(last.data, 2)
                 /\ Drop(lastWrite.data, 12) = MarshalQuestions(r.msg.Questions)

C19_UpstreamClosed ==
    upOpen = (IF pc \in { "fwd_write", "fwd_read" } THEN 1 ELSE 0)

\* A second datagram's forward failed at the write and no association is open.
C19_Witness ==
    /\ readCount = 2
    /\ last.fwd = "write"
    /\ forward.dials = 1
    /\ upOpen = 0

\* C20: nothing is retried: for one datagram net.Dial is called at most once
\* and conn.Write at most once, and a step in which the forward fails ends
\* the handling of the datagram in the fallback handler.
C20_NoRetry ==
    /\ [](forward.dials <= 1 /\ forward.sends <= forward.dials)
    /\ [](pc \in { "fwd_write", "fwd_read" } => forward.dials = 1)
    /\ [][pc' = "dispatch" => pc \in { "read", "dispatch" }]_vars
    /\ [][(pc \in { "dispatch", "fwd_write", "fwd_read" } /\ last' # last
             /\ last'.fwd \in { "dial", "write", "read" })
            => /\ HandlingEnds
               /\ last'.out \in { "fallback", "dropped", "panic" }
               /\ forward'.dials = 1]_vars

\* The dial failed for a datagram, which got the fallback after one dial.
C20_Witness ==
    /\ last.fwd = "dial"
    /\ last.out = "fallback"
    /\ forward.dials = 1
    /\ forward.sends = 0
    /\ pc = "select"

\* C12: Header.MarshalBinary yields 12 bytes, the six fields big-endian in
\* the order ID, Flags, QuestionsCount, AnswerCount, AuthorityCount,
\* AdditionalCount, and NewHeaderFromBytes on them yields the header encoded.
C12_HeaderRoundTrip ==
    (codec.op = "header" /\ codec.stage # "input")
        => /\ Len(codec.bytes) = 12
           /\ \A k \in 1..12 : codec.bytes[k] \in 0..255
           /\ codec.bytes[1] * 256 + codec.bytes[2] = codec.in.ID
           /\ codec.bytes[3] * 256 + codec.bytes[4] = codec.in.Flags
           /\ codec.bytes[5] * 256 + codec.bytes[6] = codec.in.QuestionsCount
           /\ codec.bytes[7] * 256 + codec.bytes[8] = codec.in.AnswerCount
           /\ codec.bytes[9] * 256 + codec.bytes[10] = codec.in.AuthorityCount
           /\ codec.bytes[11] * 256 + codec.bytes[12] = codec.in.AdditionalCount
           /\ codec.stage = "decoded"
                 => (codec.out.kind = "ok" /\ codec.out.h = codec.in)

\* A header of six fields that are not all equal was encoded and decoded.
C12_Witness ==
    /\ codec.op = "header"
    /\ codec.stage = "decoded"
    /\ codec.in.ID = 258
    /\ codec.in.Flags = 65535
    /\ codec.in.QuestionsCount = 0
    /\ codec.in.AdditionalCount = 258
    /\ codec.out.kind = "ok"

\* C13: a message with questions only, whose header counts them and whose
\* names have no empty label and fit the 255 bytes of the data model, encoded
\* and decoded again has the same questions in the same order and the same
\* count (and the same header); question k is decoded at the byte where
\* question k-1 ended and takes the bytes it was encoded in.
C13_MessageRoundTrip ==
    (codec.op = "message" /\ codec.stage = "decoded")
        => /\ codec.out.kind = "ok"
           /\ codec.out.msg.Questions = codec.in.Questions
           /\ codec.out.msg.Header.QuestionsCount = Len(codec.in.Questions)
           /\ codec.out.msg.Header = codec.in.Header
           /\ \A k \in 1..Len(codec.in.Questions) :
                LET qs  == codec.in.Questions
                    off == HeaderSize + Len(MarshalQuestions(SubSeq(qs, 1, k - 1)))
                    r   == NewQuestionFromBytes(SliceFrom(SliceOf(codec.bytes), off))
                IN  /\ r.kind = "ok"
                    /\ r.q = qs[k]
                    /\ r.n = Len(QuestionMarshalBinary(qs[k]))

\* A message of two different questions, the second with the longest name,
\* was encoded and decoded.
C13_Witness ==
    /\ codec.op = "message"
    /\ codec.stage = "decoded"
    /\ Len(codec.in.Questions) = 2
    /\ codec.in.Questions[1].Name = << 97, Dot, 98 >>
    /\ codec.in.Questions[2].Name = LongName
    /\ codec.out.kind = "ok"
    /\ Len(codec.out.msg.Questions) = 2

\* The bytes of the datagram a slice holds.
SliceBytes(s) == SBytes(s, 0, s.len)

\* C18: NewMessageFromBytes returns a Message or an error; a Message it
\* returns has QuestionsCount = len(Questions) = the count the wire header
\* announced, every one of them a whole question of the datagram; bytes in
\* which an announced question is missing or cut short give an error.
C18_CountMatchesOrError ==
    (codec.op = "decode" /\ codec.stage = "decoded")
        => /\ codec.out.kind \in { "ok", "err" }
           /\ codec.out.kind = "ok"
                 => /\ codec.out.msg.Header.QuestionsCount = Len(codec.out.msg.Questions)
                    /\ Len(codec.out.msg.Questions)
                          = WireQuestionsCount(SliceBytes(codec.in))
                    /\ ValidQuery(SliceBytes(codec.in))
           /\ ~ValidQuery(SliceBytes(codec.in)) => codec.out.kind = "err"

\* C21: SetResponseCode leaves bits 4..15 of Flags as they were and makes the
\* low 4 bits code mod 16; SetQuery leaves bits 0..14 as they were and makes
\* bit 15 0 for a query and 1 for a response; neither changes another field.
C21_FlagSubfieldsIndependent ==
    /\ (codec.op = "SetResponseCode" /\ codec.stage = "set")
          => /\ \A i \in 4..15 : Bit(codec.out.Flags, i) = Bit(codec.in.h.Flags, i)
             /\ codec.out.Flags % 16 = codec.in.code % 16
             /\ codec.out.Flags \in 0..65535
             /\ [codec.out EXCEPT !.Flags = 0] = [codec.in.h EXCEPT !.Flags = 0]
    /\ (codec.op = "SetQuery" /\ codec.stage = "set")
          => /\ \A i \in 0..14 : Bit(codec.out.Flags, i) = Bit(codec.in.h.Flags, i)
             /\ Bit(codec.out.Flags, 15) = (IF codec.in.isQuery THEN 0 ELSE 1)
             /\ codec.out.Flags \in 0..65535
             /\ [codec.out EXCEPT !.Flags = 0] = [codec.in.h EXCEPT !.Flags = 0]

\* SetResponseCode(18) was called on a header with every flag bit set.
C21_Witness ==
    /\ codec.op = "SetResponseCode"
    /\ codec.stage = "set"
    /\ codec.in.h.Flags = 65535
    /\ codec.in.code = 18
    /\ codec.out.Flags = 65522

\* SetQuery(false) was called on a header that had the QR bit set already.
C21_WitnessSetQuery ==
    /\ codec.op = "SetQuery"
    /\ codec.stage = "set"
    /\ ~codec.in.isQuery
    /\ codec.in.h.Flags = 33152
    /\ codec.out.Flags = 33152

\* The last handler wrote a datagram it built itself: the local answer or the
\* server-failure fallback.
Synthesized ==
    /\ last.out \in { "answered", "fallback" }
    /\ last.writes = 1

\* C22: every datagram the server builds itself, local answer and fallback
\* alike, has the QR bit set, whatever the flags of the query.
C22_SynthesizedIsResponse ==
    Synthesized => WireQR(lastWrite.data) = 1

\* C23: in every datagram the server builds itself the header counts are the
\* numbers of records encoded: QuestionsCount of questions, AnswerCount of
\* answers.
C23_CountsAgreeWithSections ==
    Synthesized
        => /\ WireQuestionsCount(lastWrite.data) = Len(msg.Questions)
           /\ WireAnswerCount(lastWrite.data) = Len(msg.Answers)
           /\ lastWrite.data = HeaderMarshalBinary(msg.Header)
                                   \o MarshalQuestions(msg.Questions)
                                   \o MarshalAnswers(msg.Answers)

\* C24: the datagram the server builds for a validly encoded query carries
\* the query's ID, the query's questions byte for byte in their order, and
\* the query's flag bits but QR (local answer) or RCODE (fallback), and is
\* written to the address the query came from.
C24_ResponseEchoesQuery ==
    (last.out \in { "answered", "fallback" } /\ ValidQuery(last.data))
        => LET q    == last.data
               r    == lastWrite.data
               qEnd == QuestionsEnd(q, HeaderSize, WireQuestionsCount(q))
           IN  /\ last.writes = 1
               /\ lastWrite.addr = last.addr
               /\ Len(r) >= qEnd
               /\ Take(r, 2) = Take(q, 2)
               /\ WireQuestionsCount(r) = WireQuestionsCount(q)
               /\ SubSeq(r, HeaderSize + 1, qEnd) = SubSeq(q, HeaderSize + 1, qEnd)
               /\ last.out = "answered" => WireFlags(r) % QrMask = WireFlags(q) % QrMask
               /\ last.out = "fallback" => WireFlags(r) \div 16 = WireFlags(q) \div 16

====
